---------------------------- MODULE Spec2Model ----------------------------
(***************************************************************************)
(* Correction-extraction and alignment engine of the grammar tutor:        *)
(*   SpanAligner       src/components/ErrorHighlight.tsx                   *)
(*   DiffSpanExtractor src/lib/diffAnalysis.ts                             *)
(*   MarkupParser      src/lib/xmlCorrectionParser.ts                      *)
(*   OffsetReconciler  findPositions / recalculatePositions                *)
(* Strings are sequences of one-character strings; positions are 0-based   *)
(* as in the source, so s[i] of the source is s[i+1] here.                 *)
(***************************************************************************)
EXTENDS Integers, Sequences, FiniteSets, TLC

VARIABLES aligner, extractor, parser, reconciler, classifier, merger, limiter, stream

vars == <<aligner, extractor, parser, reconciler, classifier, merger, limiter, stream>>

(***************************************************************************)
(* Bounds of the model.                                                    *)
(***************************************************************************)
MaxTextLen == 3
MaxOrigLen == 2
MaxCorrections == 2

Chars == {"a", "b"}

StrUpTo(A, n) == UNION {[1..k -> A] : k \in 0..n}
SeqUpTo(S, n) == UNION {[1..k -> S] : k \in 0..n}

Max(a, b) == IF a >= b THEN a ELSE b
Min(a, b) == IF a <= b THEN a ELSE b

(***************************************************************************)
(* JavaScript string primitives used by the source.                        *)
(***************************************************************************)
\* the characters s[from], ..., s[to-1] for 0 <= from <= to <= s.length
SubStr(s, from, to) == [i \in 1..(to - from) |-> s[from + i]]

\* String.prototype.slice(start, end): a negative index counts from the end,
\* both are clamped to [0, length], and an inverted range is empty.
Slice(s, start, end) ==
    LET L    == Len(s)
        from == IF start < 0 THEN Max(L + start, 0) ELSE Min(start, L)
        to   == IF end < 0 THEN Max(L + end, 0) ELSE Min(end, L)
    IN  IF from < to THEN SubStr(s, from, to) ELSE <<>>

\* String.prototype.slice(start)
SliceFrom(s, start) == Slice(s, start, Len(s))

OccursAt(s, sub, i) ==
    /\ i >= 0
    /\ i + Len(sub) <= Len(s)
    /\ SubStr(s, i, i + Len(sub)) = sub

\* String.prototype.indexOf(sub): first position of sub, or -1
IndexOf(s, sub) ==
    IF \E i \in 0..Len(s) : OccursAt(s, sub, i)
    THEN CHOOSE i \in 0..Len(s) :
            /\ OccursAt(s, sub, i)
            /\ \A j \in 0..(i - 1) : ~OccursAt(s, sub, j)
    ELSE -1

RECURSIVE Concat(_)
Concat(ss) == IF ss = <<>> THEN <<>> ELSE Head(ss) \o Concat(Tail(ss))

(***************************************************************************)
(* SpanAligner: renderTextWithHighlights of ErrorHighlight.                *)
(***************************************************************************)
AlignerIdle == [pc |-> "idle"]
ExtractorIdle == [pc |-> "idle"]
ParserIdle == [pc |-> "idle"]
ReconcilerIdle == [pc |-> "idle"]
ClassifierIdle == [pc |-> "idle"]
MergerIdle == [pc |-> "idle"]
LimiterIdle == [pc |-> "idle"]
StreamIdle == [pc |-> "idle"]

\* a correction as the aligner reads it: original and startIndex
AlignerCorrections ==
    [original : StrUpTo(Chars, MaxOrigLen), startIndex : (-1)..MaxTextLen]

\* Array.prototype.sort((a, b) => a.startIndex - b.startIndex), a stable sort
RECURSIVE InsertByStartIndex(_, _)
InsertByStartIndex(sorted, c) ==
    IF sorted = <<>> THEN <<c>>
    ELSE IF Head(sorted).startIndex <= c.startIndex
         THEN <<Head(sorted)>> \o InsertByStartIndex(Tail(sorted), c)
         ELSE <<c>> \o sorted

RECURSIVE SortByStartIndex(_)
SortByStartIndex(cs) ==
    IF cs = <<>> THEN <<>>
    ELSE InsertByStartIndex(SortByStartIndex(SubSeq(cs, 1, Len(cs) - 1)), cs[Len(cs)])

Literal(slice) == [kind |-> "text", slice |-> slice]
Annotated(c) == [kind |-> "error", slice |-> c.original, correction |-> c]

\* Scenario C and Scenario D: "I have went." with the correction of
\* "have went" at startIndex 2, and at the stale startIndex 0
ScenarioCText == <<"I", " ", "h", "a", "v", "e", " ", "w", "e", "n", "t", ".">>
ScenarioCOriginal == <<"h", "a", "v", "e", " ", "w", "e", "n", "t">>
ScenarioCorrections ==
    {<<[original |-> ScenarioCOriginal, startIndex |-> 2]>>,
     <<[original |-> ScenarioCOriginal, startIndex |-> 0]>>}

\* the props of the component: text and corrections
AlignerInputs ==
    (StrUpTo(Chars, MaxTextLen) \X SeqUpTo(AlignerCorrections, MaxCorrections))
        \cup ({ScenarioCText} \X ScenarioCorrections)

AlignerInit ==
    /\ \E input \in AlignerInputs :
       LET text        == input[1]
           corrections == input[2]
       IN
          aligner = [pc |-> "start", text |-> text, corrections |-> corrections,
                     sortedCorrections |-> <<>>, segments |-> <<>>,
                     remainingText |-> <<>>, processedLength |-> 0, index |-> 0]
    /\ extractor = ExtractorIdle
    /\ parser = ParserIdle
    /\ reconciler = ReconcilerIdle
    /\ classifier = ClassifierIdle
    /\ merger = MergerIdle
    /\ limiter = LimiterIdle
    /\ stream = StreamIdle

\* no corrections: the whole text in one span
RenderPlain ==
    /\ aligner.pc = "start"
    /\ Len(aligner.corrections) = 0
    /\ aligner' = [aligner EXCEPT !.pc = "done",
                                  !.segments = <<Literal(aligner.text)>>]
    /\ UNCHANGED <<extractor, parser, reconciler, classifier, merger, limiter, stream>>

SortCorrections ==
    /\ aligner.pc = "start"
    /\ Len(aligner.corrections) # 0
    /\ aligner' = [aligner EXCEPT !.pc = "loop",
                                  !.sortedCorrections = SortByStartIndex(aligner.corrections),
                                  !.segments = <<>>,
                                  !.remainingText = aligner.text,
                                  !.processedLength = 0,
                                  !.index = 0]
    /\ UNCHANGED <<extractor, parser, reconciler, classifier, merger, limiter, stream>>

CurrentCorrection == aligner.sortedCorrections[aligner.index + 1]

\* mutant: startIndex is taken as an offset into the remaining text
ExpectedPosition_absolute == CurrentCorrection.startIndex

\* correction.startIndex - processedLength
ExpectedPosition == CurrentCorrection.startIndex - aligner.processedLength
ActualTextAtPosition ==
    Slice(aligner.remainingText, ExpectedPosition,
          ExpectedPosition + Len(CurrentCorrection.original))

\* mutant: the last occurrence of original in the remaining text
FoundIndex_last ==
    LET remaining == aligner.remainingText
        original  == CurrentCorrection.original
    IN  IF \E p \in 0..Len(remaining) : OccursAt(remaining, original, p)
        THEN CHOOSE p \in 0..Len(remaining) :
                /\ OccursAt(remaining, original, p)
                /\ \A q \in 0..Len(remaining) : OccursAt(remaining, original, q) => q <= p
        ELSE -1

\* remainingText.indexOf(originalText)
FoundIndex == IndexOf(aligner.remainingText, CurrentCorrection.original)

InLoop ==
    /\ aligner.pc = "loop"
    /\ aligner.index < Len(aligner.sortedCorrections)

\* the literal span before position p (pushed only when p > 0), then the error span
PushMatch(segments, remaining, p, c) ==
    (IF p > 0 THEN Append(segments, Literal(Slice(remaining, 0, p))) ELSE segments)
        \o <<Annotated(c)>>

\* the text at the expected position is the correction's original
MatchAtExpected ==
    /\ InLoop
    /\ ActualTextAtPosition = CurrentCorrection.original
    /\ aligner' = [aligner EXCEPT
          !.segments = PushMatch(aligner.segments, aligner.remainingText,
                                 ExpectedPosition, CurrentCorrection),
          !.remainingText = SliceFrom(aligner.remainingText,
                                ExpectedPosition + Len(CurrentCorrection.original)),
          !.processedLength = aligner.processedLength + ExpectedPosition
                                + Len(CurrentCorrection.original),
          !.index = aligner.index + 1]
    /\ UNCHANGED <<extractor, parser, reconciler, classifier, merger, limiter, stream>>

\* otherwise the first occurrence of original in the remaining text
MatchAtFound ==
    /\ InLoop
    /\ ActualTextAtPosition # CurrentCorrection.original
    /\ FoundIndex # -1
    /\ aligner' = [aligner EXCEPT
          !.segments = PushMatch(aligner.segments, aligner.remainingText,
                                 FoundIndex, CurrentCorrection),
          !.remainingText = SliceFrom(aligner.remainingText,
                                FoundIndex + Len(CurrentCorrection.original)),
          !.processedLength = aligner.processedLength + FoundIndex
                                + Len(CurrentCorrection.original),
          !.index = aligner.index + 1]
    /\ UNCHANGED <<extractor, parser, reconciler, classifier, merger, limiter, stream>>

\* mutant: a correction that is not found ends the loop
SkipCorrection_ending ==
    /\ InLoop
    /\ ActualTextAtPosition # CurrentCorrection.original
    /\ FoundIndex = -1
    /\ aligner' = [aligner EXCEPT !.index = Len(aligner.sortedCorrections)]
    /\ UNCHANGED <<extractor, parser, reconciler, classifier, merger, limiter, stream>>

\* original is nowhere in the remaining text: warn and skip
SkipCorrection ==
    /\ InLoop
    /\ ActualTextAtPosition # CurrentCorrection.original
    /\ FoundIndex = -1
    /\ aligner' = [aligner EXCEPT !.index = aligner.index + 1]
    /\ UNCHANGED <<extractor, parser, reconciler, classifier, merger, limiter, stream>>

\* after the loop: the remaining text, when not empty
PushRemaining ==
    /\ aligner.pc = "loop"
    /\ aligner.index = Len(aligner.sortedCorrections)
    /\ aligner' = [aligner EXCEPT
          !.pc = "done",
          !.segments = IF Len(aligner.remainingText) > 0
                       THEN Append(aligner.segments, Literal(aligner.remainingText))
                       ELSE aligner.segments]
    /\ UNCHANGED <<extractor, parser, reconciler, classifier, merger, limiter, stream>>

AlignerNext ==
    \/ RenderPlain
    \/ SortCorrections
    \/ MatchAtExpected
    \/ MatchAtFound
    \/ SkipCorrection
    \/ PushRemaining

SpecAligner == AlignerInit /\ [][AlignerNext]_vars

SegmentText(segments) == Concat([i \in 1..Len(segments) |-> segments[i].slice])

\* C1: when rendering is done, the slices of the emitted segments, concatenated
\* in emission order, are exactly the text.
C1_Coverage ==
    aligner.pc = "done" => SegmentText(aligner.segments) = aligner.text

\* remainingText is the text from processedLength on
CursorConsistent(a) ==
    /\ a.processedLength + Len(a.remainingText) = Len(a.text)
    /\ a.processedLength >= 0
    /\ a.remainingText = SliceFrom(a.text, a.processedLength)

\* C21: after each correction is processed, remainingText is the text from
\* processedLength to the end, and processedLength never decreases.
C21_CursorInvariant ==
    [][/\ aligner'.pc = "loop" => CursorConsistent(aligner')
       /\ aligner'.processedLength >= aligner.processedLength]_vars

\* the slices of the segments with their kinds, in emission order
Rendered(segments) ==
    [k \in 1..Len(segments) |-> <<segments[k].kind, segments[k].slice>>]

\* the correction being processed starts at or after the cursor and the text
\* at its startIndex is its original
ExactAtStartIndex ==
    /\ InLoop
    /\ CurrentCorrection.startIndex >= aligner.processedLength
    /\ OccursAt(aligner.text, CurrentCorrection.original, CurrentCorrection.startIndex)

\* C22: a correction whose startIndex is at or after the cursor and whose
\* original is the text at startIndex is annotated exactly there, after a
\* literal span for the text between the cursor and startIndex when there is
\* any; Scenario C renders "I ", Annotated("have went"), ".".
C22_ExactPositionAcceptance ==
    [][/\ ExactAtStartIndex =>
            LET c == CurrentCorrection
            IN  /\ Rendered(aligner'.segments)
                     = Rendered(aligner.segments)
                        \o (IF c.startIndex > aligner.processedLength
                            THEN <<<<"text", SubStr(aligner.text,
                                                    Max(aligner.processedLength, 0),
                                                    c.startIndex)>>>>
                            ELSE <<>>)
                        \o <<<<"error", c.original>>>>
                /\ aligner'.segments[Len(aligner'.segments)].kind = "error"
                /\ aligner'.segments[Len(aligner'.segments)].correction = c
                /\ aligner'.processedLength = c.startIndex + Len(c.original)
       /\ (/\ aligner'.pc = "done"
           /\ aligner.text = ScenarioCText
           /\ aligner.corrections[1].startIndex = 2) =>
            Rendered(aligner'.segments)
                = << <<"text", <<"I", " ">> >>, <<"error", ScenarioCOriginal>>,
                     <<"text", <<".">> >> >>]_vars

\* original occurs somewhere in the remaining text
OccursInRemaining ==
    \E p \in 0..Len(aligner.remainingText) :
        OccursAt(aligner.remainingText, CurrentCorrection.original, p)

\* the offset of the first occurrence of original in the remaining text
FirstOccurrence ==
    CHOOSE p \in 0..Len(aligner.remainingText) :
        /\ OccursAt(aligner.remainingText, CurrentCorrection.original, p)
        /\ \A q \in 0..(p - 1) :
              ~OccursAt(aligner.remainingText, CurrentCorrection.original, q)

ScenarioCRendered ==
    << <<"text", <<"I", " ">> >>, <<"error", ScenarioCOriginal>>, <<"text", <<".">> >> >>

C24_DropOnMiss ==
    [][/\ (/\ InLoop
           /\ ActualTextAtPosition # CurrentCorrection.original
           /\ ~OccursInRemaining) =>
            /\ aligner'.segments = aligner.segments
            /\ aligner'.remainingText = aligner.remainingText
            /\ aligner'.processedLength = aligner.processedLength
            /\ aligner'.pc = "loop"
            /\ aligner'.index = aligner.index + 1
       /\ (aligner.pc = "loop" /\ aligner'.pc = "done") =>
            aligner.index = Len(aligner.sortedCorrections)]_vars

\* the first correction was dropped and the second one annotated
C24_Witness ==
    /\ aligner.pc = "done"
    /\ Len(aligner.sortedCorrections) = 2
    /\ \A p \in 0..Len(aligner.text) :
          ~OccursAt(aligner.text, aligner.sortedCorrections[1].original, p)
    /\ Rendered(aligner.segments)
          = << <<"text", <<"a">> >>,
               <<"error", aligner.sortedCorrections[2].original>> >>
    /\ aligner.segments[2].correction = aligner.sortedCorrections[2]


(***************************************************************************)
(* SpanClassifier: determineErrorType of diffAnalysis.ts.                  *)
(***************************************************************************)
LowerLetters == <<"a","b","c","d","e","f","g","h","i","j","k","l","m",
                  "n","o","p","q","r","s","t","u","v","w","x","y","z">>
UpperLetters == <<"A","B","C","D","E","F","G","H","I","J","K","L","M",
                  "N","O","P","Q","R","S","T","U","V","W","X","Y","Z">>
Digits == {"0","1","2","3","4","5","6","7","8","9"}

\* String.prototype.toLowerCase, one character
LowerChar(c) ==
    IF \E k \in 1..26 : UpperLetters[k] = c
    THEN LowerLetters[CHOOSE k \in 1..26 : UpperLetters[k] = c]
    ELSE c

ToLowerCase(s) == [k \in 1..Len(s) |-> LowerChar(s[k])]

\* the character class [.,;:!?]
Punctuation == {".", ",", ";", ":", "!", "?"}
HasPunctuation(s) == \E k \in 1..Len(s) : s[k] \in Punctuation

\* the regex class \w
IsWordChar(c) ==
    \/ \E k \in 1..26 : LowerLetters[k] = c \/ UpperLetters[k] = c
    \/ c \in Digits
    \/ c = "_"

\* mutant: only a length difference of at most 1 counts as similar
areWordsSimilar_strict(word1, word2) ==
    LET minLength   == Min(Len(word1), Len(word2))
        commonChars == Cardinality({k \in 1..minLength : word1[k] = word2[k]})
        diffLen     == Max(Len(word1), Len(word2)) - minLength
    IN  /\ diffLen <= 1
        /\ minLength > 0
        /\ 10 * commonChars > 6 * minLength

areWordsSimilar(word1, word2) ==
    LET minLength   == Min(Len(word1), Len(word2))
        commonChars == Cardinality({k \in 1..minLength : word1[k] = word2[k]})
        diffLen     == Max(Len(word1), Len(word2)) - minLength
    IN  /\ diffLen <= 2
        \* commonChars / minLength > 0.6; 0 / 0 is NaN, which is not > 0.6
        /\ minLength > 0
        /\ 10 * commonChars > 6 * minLength

GrammarWords ==
    { <<"i","s">>, <<"a","r","e">>, <<"w","a","s">>, <<"w","e","r","e">>, <<"a","m">>,
      <<"a">>, <<"a","n">>, <<"t","h","e">>,
      <<"h","e">>, <<"s","h","e">>, <<"i","t">>, <<"t","h","e","y">>, <<"w","e">>,
      <<"y","o","u">>, <<"i">>,
      <<"h","a","s">>, <<"h","a","v","e">>, <<"h","a","d">>,
      <<"d","o">>, <<"d","o","e","s">>, <<"d","i","d">> }

\* /\b(w)\b/i.test(s) for a word w of word characters
MatchesWord(s, w) ==
    \E p \in 0..Len(s) :
        /\ OccursAt(ToLowerCase(s), w, p)
        /\ (p = 0 \/ ~IsWordChar(s[p]))
        /\ (p + Len(w) = Len(s) \/ ~IsWordChar(s[p + Len(w) + 1]))

isGrammarChange(original, corrected) ==
    \E w \in GrammarWords : MatchesWord(original, w) \/ MatchesWord(corrected, w)

determineErrorType(original, corrected) ==
    LET originalLower  == ToLowerCase(original)
        correctedLower == ToLowerCase(corrected)
    IN  IF HasPunctuation(original) \/ HasPunctuation(corrected) THEN "punctuation"
        ELSE IF originalLower = correctedLower THEN "capitalization"
        ELSE IF areWordsSimilar(originalLower, correctedLower) THEN "spelling"
        ELSE IF isGrammarChange(original, corrected) THEN "grammar"
        ELSE "word choice"

\* determineErrorType as a function of its two arguments
MaxWordLen == 3
ClassifierChars == {"a", "A", "b", ".", " "}

ClassifierInit ==
    /\ \E original \in StrUpTo(ClassifierChars, MaxWordLen) :
       \E corrected \in StrUpTo(ClassifierChars, MaxWordLen) :
          classifier = [pc |-> "start", original |-> original,
                        corrected |-> corrected, label |-> ""]
    /\ aligner = AlignerIdle
    /\ extractor = ExtractorIdle
    /\ parser = ParserIdle
    /\ reconciler = ReconcilerIdle
    /\ merger = MergerIdle
    /\ limiter = LimiterIdle
    /\ stream = StreamIdle

Classify ==
    /\ classifier.pc = "start"
    /\ classifier' = [classifier EXCEPT
          !.pc = "done",
          !.label = determineErrorType(classifier.original, classifier.corrected)]
    /\ UNCHANGED <<aligner, extractor, parser, reconciler, merger, limiter, stream>>

ClassifierNext == Classify

SpecClassifier == ClassifierInit /\ [][ClassifierNext]_vars

\* the decision table of the claim, rule by rule
TableHasPunctuation(str) ==
    \E k \in DOMAIN str : str[k] \in {".", ",", ";", ":", "!", "?"}

RECURSIVE TableAligned(_, _)
TableAligned(x, y) ==
    IF x = <<>> \/ y = <<>> THEN 0
    ELSE (IF Head(x) = Head(y) THEN 1 ELSE 0) + TableAligned(Tail(x), Tail(y))

TableSimilar(x, y) ==
    LET shorter == IF Len(x) < Len(y) THEN Len(x) ELSE Len(y)
        longer  == IF Len(x) < Len(y) THEN Len(y) ELSE Len(x)
    IN  /\ longer - shorter <= 2
        /\ shorter # 0
        /\ TableAligned(x, y) * 10 > shorter * 6

TableHasGrammarWord(str) ==
    \E w \in GrammarWords : \E from \in 1..Len(str) :
        /\ from + Len(w) - 1 <= Len(str)
        /\ ToLowerCase(SubSeq(str, from, from + Len(w) - 1)) = w
        /\ (from > 1 => ~IsWordChar(str[from - 1]))
        /\ (from + Len(w) <= Len(str) => ~IsWordChar(str[from + Len(w)]))

TableLabel(original, corrected, otherwise) ==
    CASE TableHasPunctuation(original) \/ TableHasPunctuation(corrected) -> "punctuation"
      [] OTHER ->
         CASE ToLowerCase(original) = ToLowerCase(corrected) -> "capitalization"
           [] OTHER ->
              CASE TableSimilar(ToLowerCase(original), ToLowerCase(corrected)) -> "spelling"
                [] OTHER ->
                   CASE TableHasGrammarWord(original) \/ TableHasGrammarWord(corrected)
                            -> "grammar"
                     [] OTHER -> otherwise

\* C12: determineErrorType returns the label of the first matching rule of
\* punctuation, capitalization, spelling, grammar, and word-choice otherwise.
C12_DecisionTable ==
    classifier.pc = "done" =>
        classifier.label = TableLabel(classifier.original, classifier.corrected, "word-choice")

(***************************************************************************)
(* DiffSpanExtractor: analyzeDifferences of diffAnalysis.ts.               *)
(* Diff.diffWords is a library call; its result is any edit script of      *)
(* (originalText, correctedText): the unchanged and removed parts spell     *)
(* originalText, the unchanged and added parts spell correctedText.        *)
(***************************************************************************)
MaxParts == 3
MaxTokenLen == 2

DiffTokens == StrUpTo(Chars, MaxTokenLen) \ {<<>>}
DiffParts == [kind : {"unchanged", "removed", "added"}, value : DiffTokens]

RECURSIVE SpellOriginal(_)
SpellOriginal(script) ==
    IF script = <<>> THEN <<>>
    ELSE (IF Head(script).kind # "added" THEN Head(script).value ELSE <<>>)
            \o SpellOriginal(Tail(script))

RECURSIVE SpellCorrected(_)
SpellCorrected(script) ==
    IF script = <<>> THEN <<>>
    ELSE (IF Head(script).kind # "removed" THEN Head(script).value ELSE <<>>)
            \o SpellCorrected(Tail(script))

\* the edit script of "He go home." and "He goes home."
ScenarioAScript ==
    << [kind |-> "unchanged", value |-> <<"H", "e", " ">>],
       [kind |-> "removed",   value |-> <<"g", "o">>],
       [kind |-> "added",     value |-> <<"g", "o", "e", "s">>],
       [kind |-> "unchanged", value |-> <<" ", "h", "o", "m", "e", ".">>] >>

ExtractorScripts == SeqUpTo(DiffParts, MaxParts) \cup {ScenarioAScript}

ExtractorInit ==
    /\ \E script \in ExtractorScripts :
          extractor = [pc |-> "start",
                       originalText |-> SpellOriginal(script),
                       correctedText |-> SpellCorrected(script),
                       script |-> script,
                       diff |-> <<>>, diffRan |-> FALSE,
                       corrections |-> <<>>,
                       currentIndex |-> 0, correctionIndex |-> 0, i |-> 0,
                       result |-> [corrections |-> <<>>, originalText |-> <<>>]]
    /\ aligner = AlignerIdle
    /\ parser = ParserIdle
    /\ reconciler = ReconcilerIdle
    /\ classifier = ClassifierIdle
    /\ merger = MergerIdle
    /\ limiter = LimiterIdle
    /\ stream = StreamIdle

\* mutant: the identical-text shortcut is missing and the diff runs
ReturnIdentical_diffs ==
    /\ extractor.pc = "start"
    /\ extractor.originalText = extractor.correctedText
    /\ extractor' = [extractor EXCEPT
          !.pc = "loop", !.diff = extractor.script, !.diffRan = TRUE,
          !.corrections = <<>>, !.currentIndex = 0, !.correctionIndex = 0, !.i = 0]
    /\ UNCHANGED <<aligner, parser, reconciler, classifier, merger, limiter, stream>>

\* identical texts: no corrections, and diffWords is not called
ReturnIdentical ==
    /\ extractor.pc = "start"
    /\ extractor.originalText = extractor.correctedText
    /\ extractor' = [extractor EXCEPT
          !.pc = "done",
          !.result = [corrections |-> <<>>, originalText |-> extractor.originalText]]
    /\ UNCHANGED <<aligner, parser, reconciler, classifier, merger, limiter, stream>>

RunDiff ==
    /\ extractor.pc = "start"
    /\ extractor.originalText # extractor.correctedText
    /\ extractor' = [extractor EXCEPT
          !.pc = "loop", !.diff = extractor.script, !.diffRan = TRUE,
          !.corrections = <<>>, !.currentIndex = 0, !.correctionIndex = 0, !.i = 0]
    /\ UNCHANGED <<aligner, parser, reconciler, classifier, merger, limiter, stream>>

InDiffLoop ==
    /\ extractor.pc = "loop"
    /\ extractor.i < Len(extractor.diff)

Part == extractor.diff[extractor.i + 1]
HasNextPart == extractor.i + 1 < Len(extractor.diff)
NextPart == extractor.diff[extractor.i + 2]

\* mutants: the span ends where it starts; the cursor stays behind the token
SpanEnd_empty(currentIndex, original) == currentIndex
CursorAfter_stuck(currentIndex, original) == currentIndex

\* the span of a removed token at the cursor, and the cursor after it
SpanEnd(currentIndex, original) == currentIndex + Len(original)
CursorAfter(currentIndex, original) == currentIndex + Len(original)

\* removed followed by added: one replacement
Replacement ==
    /\ InDiffLoop
    /\ Part.kind = "removed"
    /\ HasNextPart /\ NextPart.kind = "added"
    /\ extractor' = [extractor EXCEPT
          !.corrections = Append(extractor.corrections,
              [original |-> Part.value, corrected |-> NextPart.value,
               type |-> determineErrorType(Part.value, NextPart.value),
               explanation |-> "Missing explanation",
               startIndex |-> extractor.currentIndex,
               endIndex |-> SpanEnd(extractor.currentIndex, Part.value)]),
          !.currentIndex = CursorAfter(extractor.currentIndex, Part.value),
          !.i = extractor.i + 2,
          !.correctionIndex = extractor.correctionIndex + 1]
    /\ UNCHANGED <<aligner, parser, reconciler, classifier, merger, limiter, stream>>

Deletion ==
    /\ InDiffLoop
    /\ Part.kind = "removed"
    /\ ~(HasNextPart /\ NextPart.kind = "added")
    /\ extractor' = [extractor EXCEPT
          !.corrections = Append(extractor.corrections,
              [original |-> Part.value, corrected |-> <<>>,
               type |-> "deletion",
               explanation |-> "Missing explanation",
               startIndex |-> extractor.currentIndex,
               endIndex |-> SpanEnd(extractor.currentIndex, Part.value)]),
          !.currentIndex = CursorAfter(extractor.currentIndex, Part.value),
          !.i = extractor.i + 1,
          !.correctionIndex = extractor.correctionIndex + 1]
    /\ UNCHANGED <<aligner, parser, reconciler, classifier, merger, limiter, stream>>

\* an insertion has an empty span at the cursor and does not move it
Insertion ==
    /\ InDiffLoop
    /\ Part.kind = "added"
    /\ extractor' = [extractor EXCEPT
          !.corrections = Append(extractor.corrections,
              [original |-> <<>>, corrected |-> Part.value,
               type |-> "insertion",
               explanation |-> "Missing explanation",
               startIndex |-> extractor.currentIndex,
               endIndex |-> extractor.currentIndex]),
          !.i = extractor.i + 1,
          !.correctionIndex = extractor.correctionIndex + 1]
    /\ UNCHANGED <<aligner, parser, reconciler, classifier, merger, limiter, stream>>

Unchanged ==
    /\ InDiffLoop
    /\ Part.kind = "unchanged"
    /\ extractor' = [extractor EXCEPT
          !.currentIndex = extractor.currentIndex + Len(Part.value),
          !.i = extractor.i + 1]
    /\ UNCHANGED <<aligner, parser, reconciler, classifier, merger, limiter, stream>>

ReturnCorrections ==
    /\ extractor.pc = "loop"
    /\ extractor.i >= Len(extractor.diff)
    /\ extractor' = [extractor EXCEPT
          !.pc = "done",
          !.result = [corrections |-> extractor.corrections,
                      originalText |-> extractor.originalText]]
    /\ UNCHANGED <<aligner, parser, reconciler, classifier, merger, limiter, stream>>

ExtractorNext ==
    \/ ReturnIdentical
    \/ RunDiff
    \/ Replacement
    \/ Deletion
    \/ Insertion
    \/ Unchanged
    \/ ReturnCorrections

SpecExtractor == ExtractorInit /\ [][ExtractorNext]_vars

\* ascending startIndex and no overlap of the half-open spans, in list order
SortedDisjoint(cs) ==
    \A j \in 1..Len(cs), k \in 1..Len(cs) :
        j < k => /\ cs[j].startIndex <= cs[k].startIndex
                 /\ cs[j].endIndex <= cs[k].startIndex

SpansSpell(text, cs) ==
    \A k \in 1..Len(cs) :
        /\ 0 <= cs[k].startIndex
        /\ cs[k].startIndex <= cs[k].endIndex
        /\ cs[k].endIndex <= Len(text)
        /\ SubStr(text, cs[k].startIndex, cs[k].endIndex) = cs[k].original

\* C2: at every step of the walk over the edit script the corrections emitted
\* so far are in ascending startIndex order and no two spans overlap.
C2_ExtractorSortedDisjoint ==
    /\ SortedDisjoint(extractor.corrections)
    /\ extractor.pc = "done" => SortedDisjoint(extractor.result.corrections)

C2_Witness ==
    /\ extractor.pc = "done"
    /\ Len(extractor.result.corrections) >= 2
    /\ \E k \in 1..Len(extractor.result.corrections) :
          extractor.result.corrections[k].type = "insertion"
    /\ \E k \in 1..Len(extractor.result.corrections) :
          extractor.result.corrections[k].type = "deletion"

\* C3: every emitted correction's span of originalText is its original, and
\* after the last part the cursor is the length of originalText.
C3_ExtractorSpansIndexOriginal ==
    /\ SpansSpell(extractor.originalText, extractor.corrections)
    /\ (extractor.pc = "done" /\ extractor.diffRan) =>
          /\ SpansSpell(extractor.originalText, extractor.result.corrections)
          /\ extractor.currentIndex = Len(extractor.originalText)

C3_Witness ==
    /\ extractor.pc = "done"
    /\ extractor.diffRan
    /\ \E k \in 1..Len(extractor.result.corrections) :
          /\ extractor.result.corrections[k].startIndex > 0
          /\ Len(extractor.result.corrections[k].original) > 0
    /\ extractor.currentIndex = Len(extractor.originalText)

\* C10: for identical texts the result has no corrections, its text is the
\* input text, and the diff was not run.
C10_ExtractorIdentity ==
    (extractor.pc = "done" /\ extractor.originalText = extractor.correctedText) =>
        /\ extractor.result.corrections = <<>>
        /\ extractor.result.originalText = extractor.originalText
        /\ ~extractor.diffRan
        /\ extractor.diff = <<>>

C10_Witness ==
    /\ extractor.pc = "done"
    /\ extractor.originalText = extractor.correctedText
    /\ Len(extractor.originalText) > 0

\* the declared labels of a correction's type
ErrorTypes ==
    {"spelling", "grammar", "punctuation", "capitalization", "word-choice",
     "insertion", "deletion", "unknown"}

\* C13: every correction the extractor emits has a type among the declared
\* labels.
C13_TypeInEnum ==
    \A k \in 1..Len(extractor.corrections) :
        extractor.corrections[k].type \in ErrorTypes

\* !c.explanation of the enrichment step: absent or empty
NeedsExplanation(c) == c.explanation = ""

\* C19: every correction the extractor emits carries no explanation, so the
\* enrichment step counts it as lacking one.
C19_ExplanationAbsent ==
    \A k \in 1..Len(extractor.corrections) :
        NeedsExplanation(extractor.corrections[k])

ScenarioADone ==
    /\ extractor.pc = "done"
    /\ extractor.script = ScenarioAScript

\* the one correction of Scenario A, with the given type label
ScenarioAResult(type) ==
    /\ Len(extractor.result.corrections) = 1
    /\ extractor.result.corrections[1].original = <<"g", "o">>
    /\ extractor.result.corrections[1].corrected = <<"g", "o", "e", "s">>
    /\ extractor.result.corrections[1].type = type
    /\ extractor.result.corrections[1].startIndex = 3
    /\ extractor.result.corrections[1].endIndex = 5

\* C11 as stated: Scenario A yields exactly one correction, go -> goes, of
\* type grammar, spanning [3, 5).
C11_ScenarioA_Grammar == ScenarioADone => ScenarioAResult("grammar")

\* C11 amended: Scenario A yields exactly one correction, go -> goes, of type
\* spelling (the similarity rule comes before the grammar rule), spanning [3, 5).
C11_ScenarioA_Spelling == ScenarioADone => ScenarioAResult("spelling")

C11_Witness ==
    /\ ScenarioADone
    /\ extractor.diffRan
    /\ extractor.originalText = <<"H", "e", " ", "g", "o", " ", "h", "o", "m", "e", ".">>
    /\ Len(extractor.result.corrections) = 1


(***************************************************************************)
(* OffsetReconciler: findPositions (correct-text-stream route),            *)
(* recalculatePositions (xmlCorrectionParser.ts) and the index completion  *)
(* of the correct-text route.                                              *)
(***************************************************************************)
MaxReconciled == 2

\* corrections as the language model returns them; indexed tells whether the
\* input carried numeric indices (computed against some other text) or none
ReconcilerInputs ==
    { [original |-> o, corrected |-> c, type |-> "spelling", explanation |-> "why",
       startIndex |-> ix[1], endIndex |-> ix[2], indexed |-> ix[3]] :
         o \in StrUpTo(Chars, MaxOrigLen), c \in {<<>>, <<"a">>},
         ix \in {<<0, 0, FALSE>>, <<1, 3, TRUE>>} }

\* mutant: the result of indexOf is used as it is
PositionOr_unchecked(index, default) == index

\* the position indexOf found, or the default when it found none
PositionOr(index, default) == IF index # -1 THEN index ELSE default

\* mutant: indices the input already carries are trusted
findPositions_trusting(originalText, corrections) ==
    [k \in 1..Len(corrections) |->
        LET correction == corrections[k]
            index      == IndexOf(originalText, correction.original)
        IN  IF correction.indexed THEN correction
            ELSE [correction EXCEPT
                    !.startIndex = PositionOr(index, 0),
                    !.endIndex = PositionOr(index, 0) + Len(correction.original)]]

\* corrections.map(correction => ({...correction, startIndex, endIndex}))
findPositions(originalText, corrections) ==
    [k \in 1..Len(corrections) |->
        LET correction == corrections[k]
            index      == IndexOf(originalText, correction.original)
        IN  [correction EXCEPT
                !.startIndex = PositionOr(index, 0),
                !.endIndex = PositionOr(index, 0) + Len(correction.original)]]

recalculatePositions(cleanText, corrections, xmlText) ==
    [k \in 1..Len(corrections) |->
        LET correction == corrections[k]
            index      == IndexOf(cleanText, correction.original)
        IN  [correction EXCEPT
                !.startIndex = PositionOr(index, 0),
                !.endIndex = PositionOr(index, 0) + Len(correction.original)]]

\* correct-text route: indices are added only where missing, and a correction
\* that is not found is placed at ten times its list position
addMissingIndices(text, corrections) ==
    [k \in 1..Len(corrections) |->
        LET correction    == corrections[k]
            index         == k - 1
            originalIndex == IndexOf(text, correction.original)
        IN  IF ~correction.indexed
            THEN [correction EXCEPT
                    !.startIndex = IF originalIndex >= 0 THEN originalIndex ELSE index * 10,
                    !.endIndex = IF originalIndex >= 0
                                 THEN originalIndex + Len(correction.original)
                                 ELSE (index * 10) + Len(correction.original)]
            ELSE correction]

ReconcilerInit ==
    \* both routes reject an empty text before they reconcile
    /\ \E canonicalText \in StrUpTo(Chars, MaxTextLen) \ {<<>>} :
       \E corrections \in SeqUpTo(ReconcilerInputs, MaxReconciled) :
          reconciler = [pc |-> "start", by |-> "none",
                        canonicalText |-> canonicalText,
                        corrections |-> corrections,
                        result |-> <<>>]
    /\ aligner = AlignerIdle
    /\ extractor = ExtractorIdle
    /\ parser = ParserIdle
    /\ classifier = ClassifierIdle
    /\ merger = MergerIdle
    /\ limiter = LimiterIdle
    /\ stream = StreamIdle

FindPositions ==
    /\ reconciler.pc = "start"
    /\ reconciler' = [reconciler EXCEPT
          !.pc = "done", !.by = "findPositions",
          !.result = findPositions(reconciler.canonicalText, reconciler.corrections)]
    /\ UNCHANGED <<aligner, extractor, parser, classifier, merger, limiter, stream>>

RecalculatePositions ==
    /\ reconciler.pc = "start"
    /\ reconciler' = [reconciler EXCEPT
          !.pc = "done", !.by = "recalculatePositions",
          !.result = recalculatePositions(reconciler.canonicalText,
                                          reconciler.corrections,
                                          reconciler.canonicalText)]
    /\ UNCHANGED <<aligner, extractor, parser, classifier, merger, limiter, stream>>

AddMissingIndices ==
    /\ reconciler.pc = "start"
    /\ reconciler' = [reconciler EXCEPT
          !.pc = "done", !.by = "correctText",
          !.result = addMissingIndices(reconciler.canonicalText, reconciler.corrections)]
    /\ UNCHANGED <<aligner, extractor, parser, classifier, merger, limiter, stream>>

ReconcilerNext ==
    \/ FindPositions
    \/ RecalculatePositions
    \/ AddMissingIndices

SpecReconciler == ReconcilerInit /\ [][ReconcilerNext]_vars

ByPositionLookup ==
    /\ reconciler.pc = "done"
    /\ reconciler.by \in {"findPositions", "recalculatePositions"}

Occurs(text, sub) == \E p \in 0..Len(text) : OccursAt(text, sub, p)

\* C6: every span returned by findPositions / recalculatePositions lies inside
\* the canonical text: 0 <= startIndex <= endIndex <= len(canonicalText).
C6_ReconciledInsideText ==
    ByPositionLookup =>
        \A k \in 1..Len(reconciler.result) :
            /\ 0 <= reconciler.result[k].startIndex
            /\ reconciler.result[k].startIndex <= reconciler.result[k].endIndex
            /\ reconciler.result[k].endIndex <= Len(reconciler.canonicalText)

\* C7: the corrections returned by findPositions / recalculatePositions are in
\* ascending startIndex order and pairwise non-overlapping.
C7_ReconciledSortedDisjoint ==
    ByPositionLookup => SortedDisjoint(reconciler.result)

\* C8: the output has the input's length and order, changes nothing but the
\* indices, and a correction whose original occurs in the canonical text gets
\* the span of the first occurrence, whatever indices it carried.
C8_FirstOccurrence ==
    ByPositionLookup =>
        /\ Len(reconciler.result) = Len(reconciler.corrections)
        /\ \A k \in 1..Len(reconciler.result) :
            LET in  == reconciler.corrections[k]
                out == reconciler.result[k]
            IN  /\ out.original = in.original
                /\ out.corrected = in.corrected
                /\ out.type = in.type
                /\ out.explanation = in.explanation
                /\ Occurs(reconciler.canonicalText, in.original) =>
                      /\ OccursAt(reconciler.canonicalText, in.original, out.startIndex)
                      /\ \A p \in 0..(out.startIndex - 1) :
                            ~OccursAt(reconciler.canonicalText, in.original, p)
                      /\ out.endIndex = out.startIndex + Len(in.original)

C8_Witness ==
    /\ ByPositionLookup
    /\ Len(reconciler.result) = 2
    /\ reconciler.result[1].original = reconciler.result[2].original
    /\ reconciler.corrections[1].indexed
    /\ reconciler.corrections[1].startIndex # reconciler.result[1].startIndex
    /\ Len(reconciler.result[2].original) > 0
    /\ \E p \in (reconciler.result[2].startIndex + 1)..Len(reconciler.canonicalText) :
          OccursAt(reconciler.canonicalText, reconciler.result[2].original, p)

\* C9: a correction without usable indices whose original does not occur in
\* the canonical text is returned with the span [0, len(original)), by every
\* reconciliation of the program.
C9_NotFoundFallback ==
    reconciler.pc = "done" =>
        \A k \in 1..Len(reconciler.result) :
            (/\ ~Occurs(reconciler.canonicalText, reconciler.corrections[k].original)
             /\ (reconciler.by = "correctText" => ~reconciler.corrections[k].indexed))
            => /\ reconciler.result[k].startIndex = 0
               /\ reconciler.result[k].endIndex = Len(reconciler.corrections[k].original)


(***************************************************************************)
(* MarkupParser: parseXmlCorrections of xmlCorrectionParser.ts.            *)
(* The marked text is a sequence of items: a plain character, a correction *)
(* tag written by the tag grammar of correctionRegex,                      *)
(*   <correction original="O" corrected="C" type="T"[ explanation="E"]>    *)
(*   INNER</correction>                                                    *)
(* or a correction element without attributes, <correction>I</correction>, *)
(* which is well-formed XML but not a match of correctionRegex.  A plain   *)
(* "<" is never followed by the letters of a tag name, so a match of       *)
(* correctionRegex in the raw string is exactly a tag item, and raw        *)
(* positions are sums of the raw lengths of the items.                     *)
(***************************************************************************)
MaxItems == 3

MarkupChars == {"a", "$", "<"}
TagTexts == {<<>>, <<"a">>, <<"$", "$">>}

\* number of characters of the labels the tags carry
Length(str) ==
    CASE str = "" -> 0
      [] str = "e" -> 1
      [] str = "grammar" -> 7
      [] str = "unknown" -> 7

\* the characters of the labels the tags carry
Spell(str) ==
    CASE str = "" -> <<>>
      [] str = "e" -> <<"e">>
      [] str = "grammar" -> <<"g", "r", "a", "m", "m", "a", "r">>
      [] str = "unknown" -> <<"u", "n", "k", "n", "o", "w", "n">>

\* <correction original="" corrected="" type=""></correction>
TagMarkupLen == 58
\* explanation="" and the space before it
ExplanationMarkupLen == 15
\* <correction></correction>
LooseMarkupLen == 25

CharItem(ch) == [kind |-> "char", ch |-> ch]
TagItems ==
    [kind : {"tag"}, original : TagTexts, corrected : {<<"a">>},
     type : {"grammar"}, explanation : {"", "e"}, inner : TagTexts]
LooseItems == [kind : {"loose"}, inner : {<<"a">>}]
MarkupItems == {CharItem(ch) : ch \in MarkupChars} \cup TagItems \cup LooseItems

\* a match of correctionRegex
IsTag(item) == item.kind = "tag"
\* a correction element of the document, a match of /<correction[^>]*>(.*?)<\/correction>/
IsElement(item) == item.kind \in {"tag", "loose"}

\* the raw text of an item
Raw(item) ==
    CASE item.kind = "char" -> <<item.ch>>
      [] item.kind = "loose" ->
            <<"<", "c", "o", "r", "r", "e", "c", "t", "i", "o", "n", ">">> \o item.inner
            \o <<"<", "/", "c", "o", "r", "r", "e", "c", "t", "i", "o", "n", ">">>
      [] item.kind = "tag" ->
            <<"<", "c", "o", "r", "r", "e", "c", "t", "i", "o", "n", " ", "o",
            "r", "i", "g", "i", "n", "a", "l", "=", "\"">>
            \o item.original
            \o <<"\"", " ", "c", "o", "r", "r", "e", "c", "t", "e", "d", "=", "\"">>
            \o item.corrected
            \o <<"\"", " ", "t", "y", "p", "e", "=", "\"">> \o Spell(item.type) \o <<"\"">>
            \o (IF item.explanation # ""
                THEN <<" ", "e", "x", "p", "l", "a", "n", "a", "t", "i", "o", "n", "=",
                 "\"">>
                     \o Spell(item.explanation) \o <<"\"">>
                ELSE <<>>)
            \o <<">">> \o item.inner
            \o <<"<", "/", "c", "o", "r", "r", "e", "c", "t", "i", "o", "n", ">">>

\* fullMatch.length
RawLen(item) ==
    IF IsTag(item)
    THEN TagMarkupLen + Len(item.original) + Len(item.corrected) + Length(item.type)
           + (IF item.explanation # "" THEN ExplanationMarkupLen + Length(item.explanation)
              ELSE 0)
           + Len(item.inner)
    ELSE IF item.kind = "loose" THEN LooseMarkupLen + Len(item.inner)
    ELSE 1

RECURSIVE RawLenOf(_)
RawLenOf(items) == IF items = <<>> THEN 0 ELSE RawLen(Head(items)) + RawLenOf(Tail(items))

\* match.index of the tag that is item k
RawIndex(items, k) == RawLenOf(SubSeq(items, 1, k - 1))

ToItems(str) == [k \in 1..Len(str) |-> CharItem(str[k])]

\* the replacement patterns of String.prototype.replace(string, string): "$$"
\* inserts one "$" ("$&", "$`" and "$'" need characters outside MarkupChars)
RECURSIVE GetSubstitution(_)
GetSubstitution(replacement) ==
    IF replacement = <<>> THEN <<>>
    ELSE IF Len(replacement) >= 2 /\ replacement[1] = "$" /\ replacement[2] = "$"
         THEN <<"$">> \o GetSubstitution(SubSeq(replacement, 3, Len(replacement)))
         ELSE <<replacement[1]>> \o GetSubstitution(Tail(replacement))

\* cleanText.replace(fullMatch, textContent): the first occurrence only
ReplaceFirst(items, tag, textContent) ==
    IF \E k \in 1..Len(items) : items[k] = tag
    THEN LET k == CHOOSE k \in 1..Len(items) :
                    items[k] = tag /\ \A j \in 1..(k - 1) : items[j] # tag
         IN  SubSeq(items, 1, k - 1) \o ToItems(GetSubstitution(textContent))
                \o SubSeq(items, k + 1, Len(items))
    ELSE items

\* xmlText.replace(/<correction[^>]*>(.*?)<\/correction>/g, '$1')
RECURSIVE StripTags(_)
StripTags(items) ==
    IF items = <<>> THEN <<>>
    ELSE (IF IsElement(Head(items)) THEN Head(items).inner ELSE <<Head(items).ch>>)
            \o StripTags(Tail(items))

\* the string a sequence of items stands for
RECURSIVE TextOf(_)
TextOf(items) ==
    IF items = <<>> THEN <<>> ELSE Raw(Head(items)) \o TextOf(Tail(items))

TagPositions(items) == {k \in 1..Len(items) : IsTag(items[k])}

\* <root>xmlText</root> parses without a parsererror
WellFormed(items) == \A k \in 1..Len(items) : items[k] # CharItem("<")

ParserInit ==
    /\ \E xmlText \in SeqUpTo(MarkupItems, MaxItems) :
       \E hasDOMParser \in BOOLEAN :
          parser = [pc |-> "start", xmlText |-> xmlText, hasDOMParser |-> hasDOMParser,
                    strategy |-> "none", lastIndex |-> 0,
                    cleanText |-> <<>>, offset |-> 0, corrections |-> <<>>,
                    result |-> [correctedText |-> <<>>, corrections |-> <<>>,
                                originalText |-> <<>>]]
    /\ aligner = AlignerIdle
    /\ extractor = ExtractorIdle
    /\ reconciler = ReconcilerIdle
    /\ classifier = ClassifierIdle
    /\ merger = MergerIdle
    /\ limiter = LimiterIdle
    /\ stream = StreamIdle

\* Node.js: no DOMParser, parseXmlWithRegex
StartRegex ==
    /\ parser.pc = "start"
    /\ ~parser.hasDOMParser
    /\ parser' = [parser EXCEPT !.pc = "regex", !.strategy = "regex",
                                !.cleanText = parser.xmlText,
                                !.offset = 0, !.lastIndex = 0,
                                !.corrections = <<>>]
    /\ UNCHANGED <<aligner, extractor, reconciler, classifier, merger, limiter, stream>>

\* browser: the document has a parsererror, parseXmlWithRegex
ParseErrorFallback ==
    /\ parser.pc = "start"
    /\ parser.hasDOMParser
    /\ ~WellFormed(parser.xmlText)
    /\ parser' = [parser EXCEPT !.pc = "regex", !.strategy = "regex",
                                !.cleanText = parser.xmlText,
                                !.offset = 0, !.lastIndex = 0,
                                !.corrections = <<>>]
    /\ UNCHANGED <<aligner, extractor, reconciler, classifier, merger, limiter, stream>>

\* item number of the next match of correctionRegex, 0 when exec returns null
NextMatch ==
    IF \E k \in TagPositions(parser.xmlText) : k > parser.lastIndex
    THEN CHOOSE k \in TagPositions(parser.xmlText) :
            /\ k > parser.lastIndex
            /\ \A j \in TagPositions(parser.xmlText) : j > parser.lastIndex => k <= j
    ELSE 0

\* match.index - offset
CleanStart(matchIndex, offset) == matchIndex - offset

\* one iteration of the while loop over the matches
RegexMatch ==
    /\ parser.pc = "regex"
    /\ NextMatch # 0
    /\ LET match      == parser.xmlText[NextMatch]
           startIndex == CleanStart(RawIndex(parser.xmlText, NextMatch), parser.offset)
       IN  parser' = [parser EXCEPT
              !.corrections = Append(parser.corrections,
                  [original |-> match.original, corrected |-> match.corrected,
                   type |-> match.type, explanation |-> match.explanation,
                   startIndex |-> startIndex,
                   endIndex |-> startIndex + Len(match.inner)]),
              !.cleanText = ReplaceFirst(parser.cleanText, match, match.inner),
              !.offset = parser.offset + RawLen(match) - Len(match.inner),
              !.lastIndex = NextMatch]
    /\ UNCHANGED <<aligner, extractor, reconciler, classifier, merger, limiter, stream>>

RegexReturn ==
    /\ parser.pc = "regex"
    /\ NextMatch = 0
    /\ parser' = [parser EXCEPT
          !.pc = "done",
          !.result = [correctedText |-> TextOf(parser.cleanText),
                      corrections |-> parser.corrections,
                      originalText |-> TextOf(parser.cleanText)]]
    /\ UNCHANGED <<aligner, extractor, reconciler, classifier, merger, limiter, stream>>

\* xmlText.indexOf(element.outerHTML): an element without children is
\* serialised as <correction .../>, which is not in xmlText
OuterHTMLIndex(items, tag) ==
    IF tag.inner = <<>> THEN -1
    ELSE RawIndex(items, CHOOSE k \in 1..Len(items) :
                            items[k] = tag /\ \A j \in 1..(k - 1) : items[j] # tag)

\* getAttribute(name) || '' and getAttribute('type') || 'unknown'
ElementAttributes(item) ==
    IF IsTag(item)
    THEN [original |-> item.original, corrected |-> item.corrected,
          type |-> IF item.type = "" THEN "unknown" ELSE item.type,
          explanation |-> item.explanation]
    ELSE [original |-> <<>>, corrected |-> <<>>, type |-> "unknown", explanation |-> ""]

\* the forEach over querySelectorAll('correction'), in document order
RECURSIVE ElementCorrections(_, _)
ElementCorrections(items, k) ==
    IF k > Len(items) THEN <<>>
    ELSE (IF IsElement(items[k]) /\ OuterHTMLIndex(items, items[k]) # -1
          THEN <<[original |-> ElementAttributes(items[k]).original,
                  corrected |-> ElementAttributes(items[k]).corrected,
                  type |-> ElementAttributes(items[k]).type,
                  explanation |-> ElementAttributes(items[k]).explanation,
                  startIndex |-> OuterHTMLIndex(items, items[k]),
                  endIndex |-> OuterHTMLIndex(items, items[k]) + RawLen(items[k])]>>
          ELSE <<>>)
         \o ElementCorrections(items, k + 1)

\* what the structural strategy returns for a well-formed document
StructuralCorrections(items) ==
    recalculatePositions(StripTags(items),
                         SortByStartIndex(ElementCorrections(items, 1)), items)

\* browser: DOMParser, sort by raw position, strip the tags, recalculatePositions
ParseStructural ==
    /\ parser.pc = "start"
    /\ parser.hasDOMParser
    /\ WellFormed(parser.xmlText)
    /\ LET corrections == SortByStartIndex(ElementCorrections(parser.xmlText, 1))
           cleanText   == StripTags(parser.xmlText)
           adjusted    == recalculatePositions(cleanText, corrections, parser.xmlText)
       IN  parser' = [parser EXCEPT
              !.pc = "done", !.strategy = "structural",
              !.corrections = corrections,
              !.result = [correctedText |-> cleanText,
                          corrections |-> adjusted,
                          originalText |-> cleanText]]
    /\ UNCHANGED <<aligner, extractor, reconciler, classifier, merger, limiter, stream>>

ParserNext ==
    \/ StartRegex
    \/ ParseErrorFallback
    \/ RegexMatch
    \/ RegexReturn
    \/ ParseStructural

SpecParser == ParserInit /\ [][ParserNext]_vars

\* the tags of the marked text, in order
TagsOf(items) ==
    LET F[k \in 0..Len(items)] ==
            IF k = 0 THEN <<>>
            ELSE IF IsTag(items[k]) THEN Append(F[k - 1], items[k]) ELSE F[k - 1]
    IN  F[Len(items)]

\* C4: every correction of the regex strategy spans, in cleanText, the inner
\* text of its tag.
C4_RegexSpansIndexCleanText ==
    (parser.pc = "done" /\ parser.strategy = "regex") =>
        /\ Len(parser.result.corrections) = Len(TagsOf(parser.xmlText))
        /\ \A k \in 1..Len(parser.result.corrections) :
            LET c == parser.result.corrections[k]
            IN  /\ 0 <= c.startIndex
                /\ c.startIndex <= c.endIndex
                /\ c.endIndex <= Len(parser.result.originalText)
                /\ SubStr(parser.result.originalText, c.startIndex, c.endIndex)
                      = TagsOf(parser.xmlText)[k].inner

\* C5: the corrections parseXmlCorrections returns are in ascending startIndex
\* order and pairwise non-overlapping, whichever strategy ran.
C5_ParserSortedDisjoint ==
    parser.pc = "done" => SortedDisjoint(parser.result.corrections)

\* RawLen is the length of the raw text
RawLenIsLength == \A item \in MarkupItems : RawLen(item) = Len(Raw(item))

(***************************************************************************)
(* The span invariant of the Correction data model, over the three         *)
(* producers of corrections: analyzeDifferences, parseXmlCorrections and   *)
(* findPositions / recalculatePositions.                                   *)
(***************************************************************************)
SpansInit == ExtractorInit \/ ParserInit \/ ReconcilerInit

SpansNext == ExtractorNext \/ ParserNext \/ ReconcilerNext

SpecSpans == SpansInit /\ [][SpansNext]_vars

SpanInvariant(c) ==
    /\ c.endIndex >= c.startIndex
    /\ c.startIndex >= 0
    /\ c.original = <<>> => c.startIndex = c.endIndex

AllSpansValid(cs) == \A k \in 1..Len(cs) : SpanInvariant(cs[k])

\* C14 for analyzeDifferences
ExtractorSpansValid ==
    extractor.pc = "done" => AllSpansValid(extractor.result.corrections)

\* C14 for findPositions / recalculatePositions
ReconcilerSpansValid == ByPositionLookup => AllSpansValid(reconciler.result)

\* C14 for the structural strategy of parseXmlCorrections
StructuralSpansValid ==
    (parser.pc = "done" /\ parser.strategy = "structural") =>
        AllSpansValid(parser.result.corrections)

\* C14 for the regex strategy of parseXmlCorrections
RegexSpansValid ==
    (parser.pc = "done" /\ parser.strategy = "regex") =>
        AllSpansValid(parser.result.corrections)

\* C14: every correction returned by analyzeDifferences, by parseXmlCorrections
\* (either strategy) and by findPositions / recalculatePositions has
\* endIndex >= startIndex >= 0, and startIndex = endIndex when its original is
\* the empty string.
C14_SpanInvariant ==
    /\ ExtractorSpansValid
    /\ ReconcilerSpansValid
    /\ StructuralSpansValid
    /\ RegexSpansValid

\* C14 as the regex strategy computes it: the span of a correction has the
\* length of the inner text of its tag
RegexSpansOfInnerText ==
    (parser.pc = "done" /\ parser.strategy = "regex") =>
        \A k \in 1..Len(parser.result.corrections) :
            LET c   == parser.result.corrections[k]
                tag == TagsOf(parser.xmlText)[k]
            IN  /\ c.startIndex >= 0
                /\ c.endIndex - c.startIndex = Len(tag.inner)
                /\ tag.inner = tag.original => SpanInvariant(c)

\* C14, amended: the span invariant holds for analyzeDifferences, for
\* findPositions / recalculatePositions and for the structural strategy; the
\* regex strategy returns endIndex >= startIndex >= 0 with the length of the
\* inner text, so startIndex = endIndex for an empty original when the inner
\* text equals the original.
C14_SpanInvariantOfInnerText ==
    /\ ExtractorSpansValid
    /\ ReconcilerSpansValid
    /\ StructuralSpansValid
    /\ RegexSpansOfInnerText

C14_Witness ==
    /\ parser.pc = "done"
    /\ parser.strategy = "regex"
    /\ \E k \in 1..Len(parser.result.corrections) :
          /\ parser.result.corrections[k].original = <<>>
          /\ TagsOf(parser.xmlText)[k].inner = <<>>
          /\ parser.result.corrections[k].startIndex > 0
          /\ parser.result.corrections[k].startIndex
                = parser.result.corrections[k].endIndex

(***************************************************************************)
(* The two strategies of parseXmlCorrections compared on one marked text.  *)
(***************************************************************************)
\* every element of the marked text is a tag of the fixed tag grammar
AllTagsMatchGrammar(items) == \A k \in 1..Len(items) : IsElement(items[k]) => IsTag(items[k])

\* every tag wraps inner text equal to its original attribute
InnerIsOriginal(items) ==
    \A k \in 1..Len(items) : IsTag(items[k]) => items[k].inner = items[k].original

\* C15: when no substring of the input matches the tag grammar, parsing returns
\* the whole input unchanged as clean text, and no correction.
C15_NoTagDegradesToCleanText ==
    (parser.pc = "done" /\ TagPositions(parser.xmlText) = {}) =>
        /\ parser.result.originalText = TextOf(parser.xmlText)
        /\ parser.result.correctedText = TextOf(parser.xmlText)
        /\ parser.result.corrections = <<>>

\* C16: on a well-formed marked text whose tags all match the tag grammar, the
\* regex strategy returns the clean text the structural strategy returns.
C16_StrategiesAgreeOnCleanText ==
    (/\ parser.pc = "done"
     /\ parser.strategy = "regex"
     /\ WellFormed(parser.xmlText)
     /\ AllTagsMatchGrammar(parser.xmlText)) =>
        parser.result.originalText = StripTags(parser.xmlText)

\* the spans of a list of corrections, in list order
SpansOf(cs) == [k \in 1..Len(cs) |-> <<cs[k].startIndex, cs[k].endIndex>>]

\* C17: on a well-formed marked text whose tags all match the tag grammar and
\* wrap their original, the regex strategy returns the corrections the
\* structural strategy returns, in the same order with the same spans.
C17_StrategiesAgreeOnSpans ==
    (/\ parser.pc = "done"
     /\ parser.strategy = "regex"
     /\ WellFormed(parser.xmlText)
     /\ AllTagsMatchGrammar(parser.xmlText)
     /\ InnerIsOriginal(parser.xmlText)) =>
        SpansOf(parser.result.corrections)
            = SpansOf(StructuralCorrections(parser.xmlText))

\* each span [startIndex, endIndex) of the text replaced by the corrected
\* value, from the last correction to the first
RECURSIVE Reinsert(_, _)
Reinsert(text, cs) ==
    IF cs = <<>> THEN text
    ELSE LET c == cs[Len(cs)]
         IN  Reinsert(Slice(text, 0, c.startIndex) \o c.corrected
                         \o SliceFrom(text, c.endIndex),
                      SubSeq(cs, 1, Len(cs) - 1))

\* each tag of the marked text replaced by its corrected attribute
RECURSIVE FullyCorrected(_)
FullyCorrected(items) ==
    IF items = <<>> THEN <<>>
    ELSE (IF IsTag(Head(items)) THEN Head(items).corrected ELSE Raw(Head(items)))
            \o FullyCorrected(Tail(items))

\* C18: on a well-formed marked text, replacing each returned span of the clean
\* text by the correction's corrected value gives the marked text with each tag
\* replaced by its corrected attribute.
C18_RoundTrip ==
    (/\ parser.pc = "done"
     /\ WellFormed(parser.xmlText)
     /\ AllTagsMatchGrammar(parser.xmlText)
     /\ InnerIsOriginal(parser.xmlText)) =>
        Reinsert(parser.result.originalText, parser.result.corrections)
            = FullyCorrected(parser.xmlText)

(***************************************************************************)
(* ExplanationMerge: the POST handler of the explain-corrections route.    *)
(* The explanations the language model returns are an oracle: any object   *)
(* with explanation strings under keys "original → corrected", {} when the *)
(* answer holds no JSON.                                                   *)
(***************************************************************************)
MaxMerged == 2

MergeCorrections ==
    [original : {<<>>, <<"a">>}, corrected : {<<"a">>, <<"b">>},
     explanation : {"", "old"}]

\* `${correction.original} → ${correction.corrected}`
ExplanationKey(correction) ==
    correction.original \o <<" ", "→", " ">> \o correction.corrected

ExplanationKeys == {ExplanationKey(c) : c \in MergeCorrections}

\* the objects JSON.parse can return; "" is a value that is not truthy
ExplanationMaps ==
    UNION {[keys -> {"", "new"}] : keys \in SUBSET ExplanationKeys}

\* explanationsMap[key], "" for undefined
Lookup(explanationsMap, key) ==
    IF key \in DOMAIN explanationsMap THEN explanationsMap[key] ELSE ""

\* mutant: an explanation of the map replaces the one a correction has
applyExplanations_overwriting(corrections, explanationsMap) ==
    [k \in 1..Len(corrections) |->
        LET correction  == corrections[k]
            explanation == Lookup(explanationsMap, ExplanationKey(correction))
        IN  IF explanation # ""
            THEN [correction EXCEPT !.explanation = explanation]
            ELSE correction]

\* corrections.map(correction => ...) of the handler
applyExplanations(corrections, explanationsMap) ==
    [k \in 1..Len(corrections) |->
        LET correction  == corrections[k]
            explanation == Lookup(explanationsMap, ExplanationKey(correction))
        IN  IF ~NeedsExplanation(correction) THEN correction
            ELSE IF explanation # ""
                 THEN [correction EXCEPT !.explanation = explanation]
                 ELSE correction]

\* corrections.filter(c => !c.explanation)
correctionsNeedingExplanations(corrections) ==
    SelectSeq(corrections, NeedsExplanation)

MergerInit ==
    /\ \E corrections \in SeqUpTo(MergeCorrections, MaxMerged) :
       \E explanationsMap \in ExplanationMaps :
       \E fieldsPresent \in BOOLEAN :
       \E apiKey \in BOOLEAN :
          merger = [pc |-> "start", corrections |-> corrections,
                    explanationsMap |-> explanationsMap,
                    fieldsPresent |-> fieldsPresent, apiKey |-> apiKey,
                    status |-> 0, response |-> <<>>]
    /\ aligner = AlignerIdle
    /\ extractor = ExtractorIdle
    /\ parser = ParserIdle
    /\ reconciler = ReconcilerIdle
    /\ classifier = ClassifierIdle
    /\ limiter = LimiterIdle
    /\ stream = StreamIdle

\* a required field of the body is missing
RejectRequest ==
    /\ merger.pc = "start"
    /\ ~merger.fieldsPresent
    /\ merger' = [merger EXCEPT !.pc = "done", !.status = 400]
    /\ UNCHANGED <<aligner, extractor, parser, reconciler, classifier, limiter, stream>>

\* OPENAI_API_KEY is not set
RejectUnconfigured ==
    /\ merger.pc = "start"
    /\ merger.fieldsPresent
    /\ ~merger.apiKey
    /\ merger' = [merger EXCEPT !.pc = "done", !.status = 500]
    /\ UNCHANGED <<aligner, extractor, parser, reconciler, classifier, limiter, stream>>

\* every correction has an explanation: the corrections are returned as sent
NoExplanationsNeeded ==
    /\ merger.pc = "start"
    /\ merger.fieldsPresent
    /\ merger.apiKey
    /\ correctionsNeedingExplanations(merger.corrections) = <<>>
    /\ merger' = [merger EXCEPT !.pc = "done", !.status = 200,
                                !.response = merger.corrections]
    /\ UNCHANGED <<aligner, extractor, parser, reconciler, classifier, limiter, stream>>

\* the request to the language model throws
GenerationFails ==
    /\ merger.pc = "start"
    /\ merger.fieldsPresent
    /\ merger.apiKey
    /\ correctionsNeedingExplanations(merger.corrections) # <<>>
    /\ \E statusCode \in {429, 500, 503} :
          merger' = [merger EXCEPT !.pc = "done", !.status = statusCode]
    /\ UNCHANGED <<aligner, extractor, parser, reconciler, classifier, limiter, stream>>

\* the language model answers and the explanations are applied
ApplyExplanations ==
    /\ merger.pc = "start"
    /\ merger.fieldsPresent
    /\ merger.apiKey
    /\ correctionsNeedingExplanations(merger.corrections) # <<>>
    /\ merger' = [merger EXCEPT
          !.pc = "done", !.status = 200,
          !.response = applyExplanations(merger.corrections, merger.explanationsMap)]
    /\ UNCHANGED <<aligner, extractor, parser, reconciler, classifier, limiter, stream>>

MergerNext ==
    \/ RejectRequest
    \/ RejectUnconfigured
    \/ NoExplanationsNeeded
    \/ GenerationFails
    \/ ApplyExplanations

SpecMerger == MergerInit /\ [][MergerNext]_vars

Merged == merger.pc = "done" /\ merger.status = 200

\* C20: the merge applied to its own result changes nothing; the result has
\* the length and order of the input, a correction that had an explanation is
\* unchanged, and the others differ from the input in the explanation at most,
\* which is then the map's value at the key of (original, corrected).
C20_MergeIdempotent ==
    Merged =>
        /\ applyExplanations(merger.response, merger.explanationsMap) = merger.response
        /\ Len(merger.response) = Len(merger.corrections)
        /\ \A k \in 1..Len(merger.corrections) :
            LET before == merger.corrections[k]
                after  == merger.response[k]
            IN  /\ ~NeedsExplanation(before) => after = before
                /\ after.original = before.original
                /\ after.corrected = before.corrected
                /\ after = [before EXCEPT !.explanation = after.explanation]
                /\ after.explanation # before.explanation =>
                      after.explanation
                          = Lookup(merger.explanationsMap, ExplanationKey(before))

C20_Witness ==
    /\ Merged
    /\ Len(merger.response) = 2
    /\ merger.corrections[1].explanation = "old"
    /\ ExplanationKey(merger.corrections[1]) \in DOMAIN merger.explanationsMap
    /\ merger.explanationsMap[ExplanationKey(merger.corrections[1])] = "new"
    /\ merger.corrections[2].explanation = ""
    /\ merger.response[2].explanation = "new"

(***************************************************************************)
(* The pipeline from the extractor to the aligner: the page renders the    *)
(* corrections analyzeDifferences returned over the original text.         *)
(***************************************************************************)
\* <ErrorHighlight text={correctionData.originalText || text}
\*                 corrections={correctionData.corrections || []} />
RenderCorrections ==
    /\ extractor.pc = "done"
    /\ aligner.pc = "idle"
    /\ aligner' = [pc |-> "start", text |-> extractor.result.originalText,
                   corrections |-> extractor.result.corrections,
                   sortedCorrections |-> <<>>, segments |-> <<>>,
                   remainingText |-> <<>>, processedLength |-> 0, index |-> 0]
    /\ UNCHANGED <<extractor, parser, reconciler, classifier, merger, limiter, stream>>

PipelineInit == ExtractorInit \/ AlignerInit

PipelineNext == ExtractorNext \/ RenderCorrections \/ AlignerNext

SpecPipeline == PipelineInit /\ [][PipelineNext]_vars

\* the aligner is rendering the corrections of the extractor
InPipeline == extractor.pc = "done" /\ aligner.pc # "idle"

\* the corrections of the Annotated segments, in emission order
RECURSIVE AnnotatedCorrections(_)
AnnotatedCorrections(segments) ==
    IF segments = <<>> THEN <<>>
    ELSE (IF Head(segments).kind = "error" THEN <<Head(segments).correction>> ELSE <<>>)
            \o AnnotatedCorrections(Tail(segments))

\* C25: every correction of analyzeDifferences is accepted by the aligner at
\* its recorded startIndex, never through the search and never dropped, and
\* the output has one Annotated segment per correction, in the extractor's
\* order.
C25_PipelineLosesNothing ==
    [][/\ (InPipeline /\ InLoop) =>
            /\ ExpectedPosition >= 0
            /\ OccursAt(aligner.remainingText, CurrentCorrection.original,
                        ExpectedPosition)
            /\ ActualTextAtPosition = CurrentCorrection.original
            /\ OccursAt(aligner.text, CurrentCorrection.original,
                        CurrentCorrection.startIndex)
            /\ aligner'.processedLength
                  = CurrentCorrection.startIndex + Len(CurrentCorrection.original)
            /\ AnnotatedCorrections(aligner'.segments)
                  = Append(AnnotatedCorrections(aligner.segments), CurrentCorrection)
       /\ (InPipeline /\ aligner'.pc = "done") =>
            /\ AnnotatedCorrections(aligner'.segments) = extractor.result.corrections
            /\ SegmentText(aligner'.segments) = extractor.originalText]_vars

\* an insertion and a deletion that share a startIndex, both annotated
C25_Witness ==
    /\ InPipeline
    /\ aligner.pc = "done"
    /\ Len(extractor.result.corrections) = 2
    /\ extractor.result.corrections[1].original = <<>>
    /\ extractor.result.corrections[2].original # <<>>
    /\ extractor.result.corrections[1].startIndex
          = extractor.result.corrections[2].startIndex
    /\ AnnotatedCorrections(aligner.segments) = extractor.result.corrections

(***************************************************************************)
(* RateLimiter: checkRateLimit and getRateLimitStatus of rateLimiting.ts,  *)
(* for the rate-limit document of one user.  Every await of a store        *)
(* operation is a step of its own, so calls interleave between the read    *)
(* and the write; a store operation may throw.  The clock counts hours.    *)
(* allowedInWindow, started, overlapped and failed record the history.     *)
(***************************************************************************)
MaxProcs == 2
MaxCalls == 4
MaxTicks == 2

ANONYMOUS_REQUEST_LIMIT == 3
RATE_LIMIT_WINDOW_HOURS == 24 * 7

Procs == 1..MaxProcs

NoDocument == [exists |-> FALSE, requestCount |-> 0, resetAt |-> 0]
Documents ==
    [exists : {TRUE}, requestCount : 1..ANONYMOUS_REQUEST_LIMIT,
     resetAt : {0, RATE_LIMIT_WINDOW_HOURS}]

NoResult == [allowed |-> FALSE, remainingRequests |-> 0]
NoCall ==
    [pc |-> "idle", fn |-> "none", isAnonymous |-> FALSE, now |-> 0,
     newRequestCount |-> 0, threw |-> FALSE, result |-> NoResult]

\* now > resetTime
WindowExpired(now, document) == now > document.resetAt

\* mutant: the limit is reached only above ANONYMOUS_REQUEST_LIMIT
LimitReached_above(document) == document.requestCount > ANONYMOUS_REQUEST_LIMIT

\* data.requestCount >= ANONYMOUS_REQUEST_LIMIT
LimitReached(document) == document.requestCount >= ANONYMOUS_REQUEST_LIMIT

\* mutant: the request is refused when the store fails
CatchResult_closed == [allowed |-> FALSE, remainingRequests |-> 0]

\* the result of the catch blocks
CatchResult == [allowed |-> TRUE, remainingRequests |-> ANONYMOUS_REQUEST_LIMIT]

LimiterInit ==
    /\ \E document \in {NoDocument} \cup Documents :
          limiter = [pc |-> "run", store |-> document, now |-> 1, ticks |-> 0,
                     calls |-> [p \in Procs |-> NoCall],
                     started |-> 0,
                     allowedInWindow |->
                        IF document.exists /\ ~WindowExpired(1, document)
                        THEN document.requestCount ELSE 0,
                     overlapped |-> FALSE, failed |-> FALSE]
    /\ aligner = AlignerIdle
    /\ extractor = ExtractorIdle
    /\ parser = ParserIdle
    /\ reconciler = ReconcilerIdle
    /\ classifier = ClassifierIdle
    /\ merger = MergerIdle
    /\ stream = StreamIdle

Running(call) == call.pc \notin {"idle", "returned"}

CanStart(p) ==
    /\ limiter.pc = "run"
    /\ ~Running(limiter.calls[p])
    /\ limiter.started < MaxCalls

\* a call of an authenticated user returns at once: unlimited
ReturnUnlimited(p) ==
    /\ CanStart(p)
    /\ \E fn \in {"checkRateLimit", "getRateLimitStatus"} :
          limiter' = [limiter EXCEPT
             !.started = limiter.started + 1,
             !.calls[p] = [NoCall EXCEPT
                !.pc = "returned", !.fn = fn,
                !.result = [allowed |-> TRUE, remainingRequests |-> -1]]]
    /\ UNCHANGED <<aligner, extractor, parser, reconciler, classifier, merger, stream>>

\* a call for an anonymous user goes on to getDoc
StartCall(p) ==
    /\ CanStart(p)
    /\ \E fn \in {"checkRateLimit", "getRateLimitStatus"} :
          limiter' = [limiter EXCEPT
             !.started = limiter.started + 1,
             !.overlapped = limiter.overlapped
                               \/ \E q \in Procs : q # p /\ Running(limiter.calls[q]),
             !.calls[p] = [NoCall EXCEPT
                !.pc = "getDoc", !.fn = fn, !.isAnonymous = TRUE]]
    /\ UNCHANGED <<aligner, extractor, parser, reconciler, classifier, merger, stream>>

\* getDoc, setDoc or updateDoc throws: the catch block returns
StoreThrows(p) ==
    /\ limiter.pc = "run"
    /\ Running(limiter.calls[p])
    /\ limiter' = [limiter EXCEPT
          !.failed = TRUE,
          !.calls[p] = [limiter.calls[p] EXCEPT
             !.pc = "returned", !.threw = TRUE, !.result = CatchResult]]
    /\ UNCHANGED <<aligner, extractor, parser, reconciler, classifier, merger, stream>>

\* checkRateLimit: getDoc resolves, now is read and the branch is taken
CheckGetDoc(p) ==
    /\ limiter.pc = "run"
    /\ limiter.calls[p].fn = "checkRateLimit"
    /\ limiter.calls[p].pc = "getDoc"
    /\ LET call == limiter.calls[p]
           data == limiter.store
           now  == limiter.now
       IN  limiter' = [limiter EXCEPT !.calls[p] =
              IF ~data.exists
              THEN [call EXCEPT !.pc = "setDoc", !.now = now]
              ELSE IF WindowExpired(now, data)
              THEN [call EXCEPT !.pc = "updateReset", !.now = now]
              ELSE IF LimitReached(data)
              THEN [call EXCEPT !.pc = "returned", !.now = now,
                                !.result = [allowed |-> FALSE, remainingRequests |-> 0]]
              ELSE [call EXCEPT !.pc = "updateIncrement", !.now = now,
                                !.newRequestCount = data.requestCount + 1]]
    /\ UNCHANGED <<aligner, extractor, parser, reconciler, classifier, merger, stream>>

\* first request: setDoc creates the document
CheckSetDoc(p) ==
    /\ limiter.pc = "run"
    /\ limiter.calls[p].pc = "setDoc"
    /\ limiter' = [limiter EXCEPT
          !.store = [exists |-> TRUE, requestCount |-> 1,
                     resetAt |-> limiter.calls[p].now + RATE_LIMIT_WINDOW_HOURS],
          !.allowedInWindow = 1,
          !.calls[p] = [limiter.calls[p] EXCEPT
             !.pc = "returned",
             !.result = [allowed |-> TRUE,
                         remainingRequests |-> ANONYMOUS_REQUEST_LIMIT - 1]]]
    /\ UNCHANGED <<aligner, extractor, parser, reconciler, classifier, merger, stream>>

\* expired window: updateDoc starts a new one
CheckUpdateReset(p) ==
    /\ limiter.pc = "run"
    /\ limiter.calls[p].pc = "updateReset"
    /\ limiter' = [limiter EXCEPT
          !.store = [exists |-> TRUE, requestCount |-> 1,
                     resetAt |-> limiter.calls[p].now + RATE_LIMIT_WINDOW_HOURS],
          !.allowedInWindow = 1,
          !.calls[p] = [limiter.calls[p] EXCEPT
             !.pc = "returned",
             !.result = [allowed |-> TRUE,
                         remainingRequests |-> ANONYMOUS_REQUEST_LIMIT - 1]]]
    /\ UNCHANGED <<aligner, extractor, parser, reconciler, classifier, merger, stream>>

\* below the limit: updateDoc writes the count computed from the snapshot
CheckUpdateIncrement(p) ==
    /\ limiter.pc = "run"
    /\ limiter.calls[p].pc = "updateIncrement"
    /\ limiter' = [limiter EXCEPT
          !.store = [limiter.store EXCEPT
                        !.requestCount = limiter.calls[p].newRequestCount],
          !.allowedInWindow = limiter.allowedInWindow + 1,
          !.calls[p] = [limiter.calls[p] EXCEPT
             !.pc = "returned",
             !.result = [allowed |-> TRUE,
                         remainingRequests |->
                            ANONYMOUS_REQUEST_LIMIT - limiter.calls[p].newRequestCount]]]
    /\ UNCHANGED <<aligner, extractor, parser, reconciler, classifier, merger, stream>>

\* what getRateLimitStatus returns for the document it read
StatusResult(now, data) ==
    IF ~data.exists \/ WindowExpired(now, data)
    THEN [allowed |-> TRUE, remainingRequests |-> ANONYMOUS_REQUEST_LIMIT]
    ELSE [allowed |-> Max(0, ANONYMOUS_REQUEST_LIMIT - data.requestCount) > 0,
          remainingRequests |-> Max(0, ANONYMOUS_REQUEST_LIMIT - data.requestCount)]

\* mutant: a status call creates the document when there is none
StatusGetDoc_creating(p) ==
    /\ limiter.pc = "run"
    /\ limiter.calls[p].fn = "getRateLimitStatus"
    /\ limiter.calls[p].pc = "getDoc"
    /\ limiter' = [limiter EXCEPT
          !.store = IF limiter.store.exists THEN limiter.store
                    ELSE [exists |-> TRUE, requestCount |-> 1,
                          resetAt |-> limiter.now + RATE_LIMIT_WINDOW_HOURS],
          !.calls[p] = [limiter.calls[p] EXCEPT
             !.pc = "returned", !.now = limiter.now,
             !.result = StatusResult(limiter.now, limiter.store)]]
    /\ UNCHANGED <<aligner, extractor, parser, reconciler, classifier, merger, stream>>

\* getRateLimitStatus: getDoc resolves and the status is returned
StatusGetDoc(p) ==
    /\ limiter.pc = "run"
    /\ limiter.calls[p].fn = "getRateLimitStatus"
    /\ limiter.calls[p].pc = "getDoc"
    /\ limiter' = [limiter EXCEPT
          !.calls[p] = [limiter.calls[p] EXCEPT
             !.pc = "returned", !.now = limiter.now,
             !.result = StatusResult(limiter.now, limiter.store)]]
    /\ UNCHANGED <<aligner, extractor, parser, reconciler, classifier, merger, stream>>

\* time passes: an hour, or the length of a window
Tick ==
    /\ limiter.pc = "run"
    /\ limiter.ticks < MaxTicks
    /\ \E hours \in {1, RATE_LIMIT_WINDOW_HOURS} :
          limiter' = [limiter EXCEPT !.now = limiter.now + hours,
                                     !.ticks = limiter.ticks + 1]
    /\ UNCHANGED <<aligner, extractor, parser, reconciler, classifier, merger, stream>>

LimiterNext ==
    \/ \E p \in Procs : ReturnUnlimited(p)
    \/ \E p \in Procs : StartCall(p)
    \/ \E p \in Procs : StoreThrows(p)
    \/ \E p \in Procs : CheckGetDoc(p)
    \/ \E p \in Procs : CheckSetDoc(p)
    \/ \E p \in Procs : CheckUpdateReset(p)
    \/ \E p \in Procs : CheckUpdateIncrement(p)
    \/ \E p \in Procs : StatusGetDoc(p)
    \/ Tick

SpecLimiter == LimiterInit /\ [][LimiterNext]_vars

\* call p returns in this step
Returns(p) ==
    /\ limiter.calls[p].pc # "returned"
    /\ limiter'.calls[p].pc = "returned"

AnonymousCheck(call) == call.fn = "checkRateLimit" /\ call.isAnonymous

\* C26: with a working store and calls that run one after another, a call is
\* allowed exactly while fewer than 3 were allowed in the window, the k-th
\* allowed call returns remainingRequests 3 - k and stores requestCount k, and a
\* refused call returns remainingRequests 0 and leaves requestCount at 3.
C26_SequentialQuota ==
    [][(~limiter'.overlapped /\ ~limiter'.failed) =>
        /\ limiter'.allowedInWindow > 0 =>
              limiter'.store.requestCount = limiter'.allowedInWindow
        /\ \A p \in Procs :
            (Returns(p) /\ AnonymousCheck(limiter'.calls[p])) =>
                LET result == limiter'.calls[p].result
                IN  IF result.allowed
                    THEN /\ limiter'.allowedInWindow \in 1..ANONYMOUS_REQUEST_LIMIT
                         /\ result.remainingRequests
                               = ANONYMOUS_REQUEST_LIMIT - limiter'.allowedInWindow
                         /\ limiter'.store.requestCount = limiter'.allowedInWindow
                    ELSE /\ limiter.allowedInWindow = ANONYMOUS_REQUEST_LIMIT
                         /\ result.remainingRequests = 0
                         /\ limiter'.store = limiter.store
                         /\ limiter'.store.requestCount = ANONYMOUS_REQUEST_LIMIT]_vars

\* four calls one after another from a new document: the fourth is refused
C26_Witness ==
    /\ limiter.pc = "run"
    /\ ~limiter.overlapped
    /\ ~limiter.failed
    /\ limiter.started >= 4
    /\ limiter.store.exists
    /\ limiter.store.resetAt = 1 + RATE_LIMIT_WINDOW_HOURS
    /\ limiter.store.requestCount = ANONYMOUS_REQUEST_LIMIT
    /\ limiter.allowedInWindow = ANONYMOUS_REQUEST_LIMIT
    /\ \E p \in Procs :
          /\ AnonymousCheck(limiter.calls[p])
          /\ limiter.calls[p].pc = "returned"
          /\ ~limiter.calls[p].result.allowed

\* C27: with interleaved calls and a working store, at most 3 calls are
\* allowed in one window, and when no call is running the stored requestCount
\* is the number of allowed calls.
C27_ConcurrentQuota ==
    (limiter.pc = "run" /\ ~limiter.failed) =>
        /\ limiter.allowedInWindow <= ANONYMOUS_REQUEST_LIMIT
        /\ (/\ limiter.allowedInWindow > 0
            /\ \A p \in Procs : ~Running(limiter.calls[p])) =>
                limiter.store.requestCount = limiter.allowedInWindow

\* C28: a checkRateLimit call whose store operation threw has returned
\* allowed = true with remainingRequests = 3, whatever the stored count.
C28_FailsOpen ==
    limiter.pc = "run" =>
        \A p \in Procs :
            (limiter.calls[p].fn = "checkRateLimit" /\ limiter.calls[p].threw) =>
                /\ limiter.calls[p].pc = "returned"
                /\ limiter.calls[p].result.allowed
                /\ limiter.calls[p].result.remainingRequests = ANONYMOUS_REQUEST_LIMIT

\* a user at the limit, inside the window, is allowed while the store fails
C28_Witness ==
    /\ limiter.pc = "run"
    /\ limiter.store.exists
    /\ limiter.store.requestCount = ANONYMOUS_REQUEST_LIMIT
    /\ ~WindowExpired(limiter.now, limiter.store)
    /\ \E p \in Procs :
          /\ limiter.calls[p].fn = "checkRateLimit"
          /\ limiter.calls[p].threw
          /\ limiter.calls[p].result.allowed

\* C29: no step of a getRateLimitStatus call, for an anonymous user or not,
\* changes the rate-limit document or the number of allowed calls.
C29_StatusReadOnly ==
    [][\A p \in Procs :
          (/\ limiter'.calls[p] # limiter.calls[p]
           /\ limiter'.calls[p].fn = "getRateLimitStatus") =>
              /\ limiter'.store = limiter.store
              /\ limiter'.allowedInWindow = limiter.allowedInWindow]_vars

\* a status call that found no document, and one that found it at the limit
C29_Witness ==
    /\ limiter.pc = "run"
    /\ \E p \in Procs :
          /\ limiter.calls[p].fn = "getRateLimitStatus"
          /\ limiter.calls[p].isAnonymous
          /\ limiter.calls[p].pc = "returned"
          /\ ~limiter.calls[p].threw
          /\ ~limiter.store.exists
    /\ limiter.started >= 2

(***************************************************************************)
(* The streaming correction route: the POST handler that writes status     *)
(* events and the result to a ReadableStream.  The code between two awaits *)
(* is one step; request.json(), getGrammarCorrectionPrompt() and           *)
(* generateObject() may throw, checkRateLimit() catches its own errors.    *)
(* The consumer keeps reading: the stream is not cancelled.                *)
(***************************************************************************)
\* the text of the body: no field, '', a value that is not a string, a text
TextInputs == {"undefined", "empty", "number", "text"}

StatusEvent(step) == [type |-> "status", step |-> step, failure |-> FALSE]
FailureEvent(step) == [type |-> "status", step |-> step, failure |-> TRUE]
ResultEvent == [type |-> "result", step |-> 9, failure |-> FALSE]

StreamInit ==
    /\ \E userId \in BOOLEAN :
       \E isAnonymous \in BOOLEAN :
       \E text \in TextInputs :
       \E apiKey \in BOOLEAN :
          stream = [pc |-> "start", userId |-> userId, isAnonymous |-> isAnonymous,
                    text |-> text, apiKey |-> apiKey,
                    rateLimit |-> "none", validated |-> FALSE,
                    events |-> <<>>, closed |-> 0, modelCalls |-> 0,
                    outcome |-> "none"]
    /\ aligner = AlignerIdle
    /\ extractor = ExtractorIdle
    /\ parser = ParserIdle
    /\ reconciler = ReconcilerIdle
    /\ classifier = ClassifierIdle
    /\ merger = MergerIdle
    /\ limiter = LimiterIdle

\* the catch block: one status event with step 0, then close
Catch(s) ==
    [s EXCEPT !.pc = "done", !.outcome = "threw",
              !.events = Append(s.events, FailureEvent(0)),
              !.closed = s.closed + 1]

\* a rejection: one status event for the failure, then close and return
Reject(s, step) ==
    [s EXCEPT !.pc = "done", !.outcome = "rejected",
              !.events = Append(s.events, FailureEvent(step)),
              !.closed = s.closed + 1]

\* request.json() resolves
ReadBody ==
    /\ stream.pc = "start"
    /\ stream' = [stream EXCEPT !.pc = "body"]
    /\ UNCHANGED <<aligner, extractor, parser, reconciler, classifier, merger, limiter>>

\* an awaited call throws
AwaitThrows ==
    /\ stream.pc \in {"start", "prompt", "model"}
    /\ stream' = Catch(stream)
    /\ UNCHANGED <<aligner, extractor, parser, reconciler, classifier, merger, limiter>>

RejectNoUser ==
    /\ stream.pc = "body"
    /\ ~stream.userId
    /\ stream' = Reject(stream, 1)
    /\ UNCHANGED <<aligner, extractor, parser, reconciler, classifier, merger, limiter>>

\* anonymous user: a status event, then checkRateLimit
StartRateLimit ==
    /\ stream.pc = "body"
    /\ stream.userId
    /\ stream.isAnonymous
    /\ stream' = [stream EXCEPT !.pc = "rateLimit",
                                !.events = Append(stream.events, StatusEvent(1))]
    /\ UNCHANGED <<aligner, extractor, parser, reconciler, classifier, merger, limiter>>

SkipRateLimit ==
    /\ stream.pc = "body"
    /\ stream.userId
    /\ ~stream.isAnonymous
    /\ stream' = [stream EXCEPT !.pc = "validate"]
    /\ UNCHANGED <<aligner, extractor, parser, reconciler, classifier, merger, limiter>>

\* mutant: a refused request goes on to the validation
RateLimitRefused_ignored ==
    /\ stream.pc = "rateLimit"
    /\ stream' = [stream EXCEPT !.pc = "validate", !.rateLimit = "refused"]
    /\ UNCHANGED <<aligner, extractor, parser, reconciler, classifier, merger, limiter>>

\* checkRateLimit returned allowed = false
RateLimitRefused ==
    /\ stream.pc = "rateLimit"
    /\ stream' = Reject([stream EXCEPT !.rateLimit = "refused"], 1)
    /\ UNCHANGED <<aligner, extractor, parser, reconciler, classifier, merger, limiter>>

\* checkRateLimit returned allowed = true
RateLimitAllowed ==
    /\ stream.pc = "rateLimit"
    /\ stream' = [stream EXCEPT !.pc = "validate", !.rateLimit = "allowed"]
    /\ UNCHANGED <<aligner, extractor, parser, reconciler, classifier, merger, limiter>>

\* text.length of a missing text throws before the validation
ValidationThrows ==
    /\ stream.pc = "validate"
    /\ stream.text = "undefined"
    /\ stream' = Catch(stream)
    /\ UNCHANGED <<aligner, extractor, parser, reconciler, classifier, merger, limiter>>

\* !text || typeof text !== 'string'
RejectText ==
    /\ stream.pc = "validate"
    /\ stream.text \in {"empty", "number"}
    /\ stream' = Reject([stream EXCEPT
                            !.events = Append(stream.events, StatusEvent(2))], 2)
    /\ UNCHANGED <<aligner, extractor, parser, reconciler, classifier, merger, limiter>>

\* OPENAI_API_KEY is not set
RejectNoApiKey ==
    /\ stream.pc = "validate"
    /\ stream.text = "text"
    /\ ~stream.apiKey
    /\ stream' = Reject([stream EXCEPT
                            !.events = Append(stream.events, StatusEvent(2))], 2)
    /\ UNCHANGED <<aligner, extractor, parser, reconciler, classifier, merger, limiter>>

\* the validation passed: steps 2 and 3, then getGrammarCorrectionPrompt
LoadPrompt ==
    /\ stream.pc = "validate"
    /\ stream.text = "text"
    /\ stream.apiKey
    /\ stream' = [stream EXCEPT
          !.pc = "prompt", !.validated = TRUE,
          !.events = stream.events \o <<StatusEvent(2), StatusEvent(3)>>]
    /\ UNCHANGED <<aligner, extractor, parser, reconciler, classifier, merger, limiter>>

\* steps 4 to 6, then generateObject is called
CallModel ==
    /\ stream.pc = "prompt"
    /\ stream' = [stream EXCEPT
          !.pc = "model", !.modelCalls = stream.modelCalls + 1,
          !.events = stream.events \o <<StatusEvent(4), StatusEvent(5), StatusEvent(6)>>]
    /\ UNCHANGED <<aligner, extractor, parser, reconciler, classifier, merger, limiter>>

\* steps 7 to 9, the result event, then close
SendResult ==
    /\ stream.pc = "model"
    /\ stream' = [stream EXCEPT
          !.pc = "done", !.outcome = "result",
          !.events = stream.events
                        \o <<StatusEvent(7), StatusEvent(8), StatusEvent(9),
                             StatusEvent(9), ResultEvent>>,
          !.closed = stream.closed + 1]
    /\ UNCHANGED <<aligner, extractor, parser, reconciler, classifier, merger, limiter>>

StreamNext ==
    \/ ReadBody
    \/ AwaitThrows
    \/ RejectNoUser
    \/ StartRateLimit
    \/ SkipRateLimit
    \/ RateLimitRefused
    \/ RateLimitAllowed
    \/ ValidationThrows
    \/ RejectText
    \/ RejectNoApiKey
    \/ LoadPrompt
    \/ CallModel
    \/ SendResult

SpecStream == StreamInit /\ [][StreamNext]_vars

FailureEvents(events) == SelectSeq(events, LAMBDA e : e.failure)
ResultEvents(events) == SelectSeq(events, LAMBDA e : e.type = "result")

=============================================================================
